---- MODULE Spec2Model ----
(***************************************************************************)
(* Model of rust-market-data-stream: the MarketDataClient session          *)
(* (src/src/client/mod.rs) with its tokio broadcast channel, the start()   *)
(* calls, the spawned read-loop tasks and the subscriber handles.          *)
(***************************************************************************)
EXTENDS Integers, Sequences, FiniteSets, TLC

\* ------------------------------------------------------------------ bounds
\* start() invocations explored (each may open one connection, spawn one loop)
MaxStarts == 2
\* text frames the upstream sends while the whole lifecycle is explored
MaxSessionFrames == 2
\* text frames the upstream sends while the distributor is explored
MaxFrames == 4
\* largest buffer_size passed to MarketDataClient::new
MaxBufferSize == 3
\* trades applied to one MarketStats record
MaxTrades == 2

Calls == 1..MaxStarts
\* receive handles: two for the distributor (one may stall while the other
\* keeps up), the first of them alone beside the whole lifecycle
Subs == {1, 2}
SessionSubs == {1}

VARIABLES
    buffer_size,  \* argument of MarketDataClient::new
    running,      \* *self.running (tokio Mutex<bool>)
    cpc,          \* position of each start() call
    result,       \* what each start() call returned
    lpc,          \* position of the read-loop task spawned by each call
    nframes,      \* text frames read so far (gives each its identity)
    slots,        \* the broadcast channel's ring of slots
    tail,         \* the broadcast channel's tail position
    rx,           \* state of each receive handle
    next,         \* each receive handle's next position
    got,          \* history: what each handle's recv() returned Ok
    missed,       \* history: total each handle was told it lagged by
    born,         \* history: number of send() calls made before subscribe()
    pubs,         \* history: every send() call, in order, with its outcome
    cohort,       \* history: start() calls invoked since the last stop()
    halted,       \* history: loops that were alive when stop() was called
    late,         \* history: messages each such loop passed to send since
                  \*          the latest stop(), while no start() call followed it
    stats,        \* a MarketStats record (src/src/types.rs)
    applied       \* history: the trades given to update_with_trade, in order

vars == <<buffer_size, running, cpc, result, lpc, nframes, slots, tail,
          rx, next, got, missed, born, pubs, cohort, halted, late,
          stats, applied>>

chanVars == <<slots, tail, pubs>>
subVars == <<rx, next, got, missed, born>>
callVars == <<cpc, result, cohort, halted>>
statVars == <<stats, applied>>

\* ------------------------------------------------------------- wire format
NoPayload == [tag |-> "none", complete |-> FALSE]
NoMsg == [type |-> "none", id |-> 0]

\* #[serde(tag = "type")] enum MarketDataMessage
VariantTags == {"Trade", "Quote", "OrderBook", "Heartbeat"}

\* text payloads the upstream is let to send: a complete Trade, a Trade with a
\* field missing and the spec's {"type":"unknown"}
TextPayloads ==
    { [tag |-> "Trade", complete |-> TRUE],
      [tag |-> "Trade", complete |-> FALSE],
      [tag |-> "unknown", complete |-> TRUE] }

\* serde_json::from_str::<MarketDataMessage>: the discriminator selects the
\* variant, the variant's fields must all be present (Heartbeat has none)
Decode(p, id) ==
    IF p.tag = "Heartbeat" \/ (p.tag \in VariantTags /\ p.complete)
    THEN [ok |-> TRUE, msg |-> [type |-> p.tag, id |-> id]]
    ELSE [ok |-> FALSE, msg |-> NoMsg]

\* what read.next() can yield: Some(Ok(Text)), Some(Ok(Binary)), Some(Ok(Ping)),
\* Some(Ok(Close)), Some(Err), None.  Text frames carry the identity id.
TextFrames(id) == { [kind |-> "Text", payload |-> p, id |-> id] : p \in TextPayloads }

OtherFrames ==
    { [kind |-> "Binary", payload |-> [tag |-> "Trade", complete |-> TRUE], id |-> 0] }
    \cup { [kind |-> k, payload |-> NoPayload, id |-> 0] :
              k \in {"Ping", "Close", "Error", "End"} }

\* ------------------------------------------------------- broadcast channel
RECURSIVE NextPowerOfTwoFrom(_, _)
NextPowerOfTwoFrom(p, n) == IF p >= n THEN p ELSE NextPowerOfTwoFrom(2 * p, n)

\* broadcast::channel(buffer_size) rounds the capacity up to a power of two
Capacity == NextPowerOfTwoFrom(1, buffer_size)

\* slot i starts with pos = i - capacity, so that a fresh receiver finds it empty
InitSlots(cap) == [i \in 0..(cap - 1) |-> [pos |-> i - cap, val |-> NoMsg]]

RxCount == Cardinality({s \in Subs : rx[s] = "active"})

\* a bounded queue's send, which waits while some receiver's buffer is full
BroadcastSendBackpressure(msg) ==
    /\ \A s \in Subs : rx[s] = "active" => tail - next[s] < Capacity
    /\ IF RxCount = 0
       THEN /\ pubs' = Append(pubs, [msg |-> msg, stored |-> FALSE])
            /\ UNCHANGED <<slots, tail>>
       ELSE /\ slots' = [slots EXCEPT ![tail % Capacity] = [pos |-> tail, val |-> msg]]
            /\ tail' = tail + 1
            /\ pubs' = Append(pubs, [msg |-> msg, stored |-> TRUE])

\* line 88, broadcast_tx.send(msg): Err(SendError) when there is no receiver
\* (nothing is stored), else the message overwrites the slot at tail and tail
\* advances.  It never waits for a receiver.
BroadcastSend(msg) ==
    IF RxCount = 0
    THEN /\ pubs' = Append(pubs, [msg |-> msg, stored |-> FALSE])
         /\ UNCHANGED <<slots, tail>>
    ELSE /\ slots' = [slots EXCEPT ![tail % Capacity] = [pos |-> tail, val |-> msg]]
         /\ tail' = tail + 1
         /\ pubs' = Append(pubs, [msg |-> msg, stored |-> TRUE])

\* recv that always hands out the newest stored value
RecvAtNewest(n) ==
    IF n >= tail
    THEN [kind |-> "Empty", val |-> NoMsg, next |-> n, missed |-> 0]
    ELSE [kind |-> "Ok", val |-> slots[(tail - 1) % Capacity].val, next |-> n + 1, missed |-> 0]

\* recv whose jump after a lag lands one past the oldest retained value
RecvAtLagOffByOne(n) ==
    LET slot == slots[n % Capacity] IN
    IF slot.pos = n
    THEN [kind |-> "Ok", val |-> slot.val, next |-> n + 1, missed |-> 0]
    ELSE IF slot.pos + Capacity = n
    THEN [kind |-> "Empty", val |-> NoMsg, next |-> n, missed |-> 0]
    ELSE [kind |-> "Lagged", val |-> NoMsg, next |-> tail - Capacity + 1,
          missed |-> (tail - Capacity + 1) - n]

\* Receiver::recv for a handle whose next position is n: the slot at n holds
\* the value, or the channel is empty there (recv waits), or the slot was
\* overwritten and the handle jumps to the oldest retained position and is
\* told Lagged(missed)
RecvAt(n) ==
    LET slot == slots[n % Capacity] IN
    IF slot.pos = n
    THEN [kind |-> "Ok", val |-> slot.val, next |-> n + 1, missed |-> 0]
    ELSE IF slot.pos + Capacity = n
    THEN [kind |-> "Empty", val |-> NoMsg, next |-> n, missed |-> 0]
    ELSE [kind |-> "Lagged", val |-> NoMsg, next |-> tail - Capacity,
          missed |-> (tail - Capacity) - n]

RecvOutcome(s) == RecvAt(next[s])

\* ------------------------------------------------------------ f64 arithmetic
\* An f64 is a finite value, held exactly as a fraction n/d in lowest terms
\* with d > 0, or an infinity (n is its sign), or NaN.  Rounding and overflow
\* to infinity are not modelled; the special values of IEEE 754 are.
Abs(x) == IF x < 0 THEN -x ELSE x
Sgn(x) == IF x < 0 THEN -1 ELSE IF x > 0 THEN 1 ELSE 0

RECURSIVE GCD(_, _)
GCD(a, b) == IF b = 0 THEN a ELSE GCD(b, a % b)

Fin(n, d) ==
    LET g == GCD(Abs(n), Abs(d))
        sg == IF d < 0 THEN -1 ELSE 1
    IN  [k |-> "fin", n |-> sg * (n \div g), d |-> sg * (d \div g)]

F64(i) == [k |-> "fin", n |-> i, d |-> 1]
NaN == [k |-> "nan", n |-> 0, d |-> 1]
Inf(sg) == [k |-> "inf", n |-> sg, d |-> 1]
IsZero(a) == a.k = "fin" /\ a.n = 0
IsFinite(a) == a.k = "fin"

FNeg(a) == IF a.k = "nan" THEN NaN ELSE [a EXCEPT !.n = -a.n]

FAdd(a, b) ==
    CASE a.k = "nan" \/ b.k = "nan" -> NaN
      [] a.k = "inf" /\ b.k = "inf" -> IF a.n = b.n THEN a ELSE NaN
      [] a.k = "inf" -> a
      [] b.k = "inf" -> b
      [] OTHER -> Fin(a.n * b.d + b.n * a.d, a.d * b.d)

FSub(a, b) == FAdd(a, FNeg(b))

FMul(a, b) ==
    CASE a.k = "nan" \/ b.k = "nan" -> NaN
      [] a.k = "inf" \/ b.k = "inf" ->
            IF IsZero(a) \/ IsZero(b) THEN NaN ELSE Inf(Sgn(a.n) * Sgn(b.n))
      [] OTHER -> Fin(a.n * b.n, a.d * b.d)

\* x / 0.0 is an infinity of the sign of x and 0.0 / 0.0 is NaN (the divisor
\* total_volume is never -0.0: it starts at 0.0 and only has values added)
FDiv(a, b) ==
    CASE a.k = "nan" \/ b.k = "nan" -> NaN
      [] a.k = "inf" -> IF b.k = "inf" THEN NaN
                        ELSE Inf(a.n * (IF b.n < 0 THEN -1 ELSE 1))
      [] b.k = "inf" -> F64(0)
      [] b.n = 0 -> IF a.n = 0 THEN NaN ELSE Inf(Sgn(a.n))
      [] OTHER -> Fin(a.n * b.d, a.d * b.n)

\* the comparisons of f64: every comparison with NaN is false
FLt(a, b) ==
    CASE a.k = "nan" \/ b.k = "nan" -> FALSE
      [] a.k = "inf" -> a.n < 0 /\ ~(b.k = "inf" /\ b.n < 0)
      [] b.k = "inf" -> b.n > 0
      [] OTHER -> a.n * b.d < b.n * a.d

FEq(a, b) == a.k # "nan" /\ b.k # "nan" /\ a = b
FLe(a, b) == FLt(a, b) \/ FEq(a, b)

\* ------------------------------------------------------------- MarketStats
\* f64::MAX, standing above every price and quantity fed to the model;
\* f64::MIN is its negation
F64_MAX == 1000
F64_MIN == 0 - F64_MAX

\* Option<DateTime<Utc>>
None == [some |-> FALSE, at |-> 0]
Some(ts) == [some |-> TRUE, at |-> ts]

\* the symbol the record is created for, and another one
StatsSymbol == "BTCUSD"
Symbols == {"BTCUSD", "ETHUSD"}

\* the Trade values fed to update_with_trade (side and trade_id play no part
\* in it): price and quantity are any f64 the JSON holds, since the derived
\* Deserialize validates no range, so zero and negative quantities are among
\* them
Prices == {1, 2, 3}
Quantities == {-1, 0, 1, 2}
Timestamps == {1, 2}
Trades ==
    [symbol : Symbols, price : Prices, quantity : Quantities, timestamp : Timestamps]

\* #[derive(Default)]: every field zero
MarketStatsDefault(symbol) ==
    [symbol |-> symbol, trade_count |-> 0, total_volume |-> F64(0), vwap |-> F64(0),
     high |-> F64(0), low |-> F64(0), last_price |-> F64(0), last_update |-> None]

\* lines 115-126: MarketStats::new
MarketStatsNew(symbol) ==
    [symbol |-> symbol, trade_count |-> 0, total_volume |-> F64(0), vwap |-> F64(0),
     high |-> F64(F64_MIN), low |-> F64(F64_MAX), last_price |-> F64(0),
     last_update |-> None]

\* --------------------------------------------------------------------- Init
Init ==
    /\ buffer_size \in 1..MaxBufferSize
    /\ running = FALSE
    /\ cpc = [c \in Calls |-> "idle"]
    /\ result = [c \in Calls |-> "pending"]
    /\ lpc = [c \in Calls |-> "none"]
    /\ nframes = 0
    /\ slots = InitSlots(NextPowerOfTwoFrom(1, buffer_size))
    /\ tail = 0
    /\ rx = [s \in Subs |-> "none"]
    /\ next = [s \in Subs |-> 0]
    /\ got = [s \in Subs |-> <<>>]
    /\ missed = [s \in Subs |-> 0]
    /\ born = [s \in Subs |-> 0]
    /\ pubs = <<>>
    /\ cohort = {}
    /\ halted = {}
    /\ late = [l \in Calls |-> 0]
    /\ stats = MarketStatsNew(StatsSymbol)
    /\ applied = <<>>

\* ------------------------------------------------------------------ start()
\* start() without the `if *running` early return
StartCallUnguarded(c) ==
    /\ cpc[c] = "idle"
    /\ IF c = 1 THEN TRUE ELSE cpc[c - 1] # "idle"
    /\ cohort' = cohort \cup {c}
    /\ late' = [l \in Calls |-> 0]
    /\ running' = TRUE
    /\ cpc' = [cpc EXCEPT ![c] = "connect"]
    /\ UNCHANGED <<statVars, buffer_size, result, halted, lpc, nframes, chanVars, subVars>>

\* lines 48-54: under the lock, return Ok if already running, else set the flag
StartCall(c) ==
    /\ cpc[c] = "idle"
    /\ IF c = 1 THEN TRUE ELSE cpc[c - 1] # "idle"
    /\ cohort' = cohort \cup {c}
    /\ late' = [l \in Calls |-> 0]
    /\ IF running
       THEN /\ cpc' = [cpc EXCEPT ![c] = "returned"]
            /\ result' = [result EXCEPT ![c] = "Ok"]
            /\ UNCHANGED running
       ELSE /\ running' = TRUE
            /\ cpc' = [cpc EXCEPT ![c] = "connect"]
            /\ UNCHANGED result
    /\ UNCHANGED <<statVars, buffer_size, halted, lpc, nframes, chanVars, subVars>>

\* lines 58-60: connect_async succeeded
ConnectOk(c) ==
    /\ cpc[c] = "connect"
    /\ cpc' = [cpc EXCEPT ![c] = "send"]
    /\ UNCHANGED <<statVars, buffer_size, running, result, cohort, halted, late, lpc, nframes,
                   chanVars, subVars>>

\* lines 58-60: connect_async failed, `?` returns ClientError::Connection
ConnectFail(c) ==
    /\ cpc[c] = "connect"
    /\ cpc' = [cpc EXCEPT ![c] = "returned"]
    /\ result' = [result EXCEPT ![c] = "ConnectionError"]
    /\ UNCHANGED <<statVars, buffer_size, running, cohort, halted, late, lpc, nframes,
                   chanVars, subVars>>

\* lines 74-77: sending the subscribe request failed, `?` returns ClientError::WebSocket
SendFail(c) ==
    /\ cpc[c] = "send"
    /\ cpc' = [cpc EXCEPT ![c] = "returned"]
    /\ result' = [result EXCEPT ![c] = "WebSocketError"]
    /\ UNCHANGED <<statVars, buffer_size, running, cohort, halted, late, lpc, nframes,
                   chanVars, subVars>>

\* lines 74-80, 120: the subscribe request was sent, the read loop is spawned, Ok(())
SendOk(c) ==
    /\ cpc[c] = "send"
    /\ cpc' = [cpc EXCEPT ![c] = "returned"]
    /\ result' = [result EXCEPT ![c] = "Ok"]
    /\ lpc' = [lpc EXCEPT ![c] = "check"]
    /\ UNCHANGED <<statVars, buffer_size, running, cohort, halted, late, nframes,
                   chanVars, subVars>>

\* ------------------------------------------------------------------- stop()
\* stop() that flips the flag instead of clearing it
StopToggles ==
    /\ running' = ~running
    /\ cohort' = {}
    /\ halted' = halted \cup {l \in Calls : lpc[l] \in {"check", "read"}}
    /\ late' = [l \in Calls |-> 0]
    /\ UNCHANGED <<statVars, buffer_size, cpc, result, lpc, nframes,
                   chanVars, subVars>>

\* lines 124-128: under the lock, *running = false
Stop ==
    /\ running' = FALSE
    /\ cohort' = {}
    /\ halted' = halted \cup {l \in Calls : lpc[l] \in {"check", "read"}}
    /\ late' = [l \in Calls |-> 0]
    /\ UNCHANGED <<statVars, buffer_size, cpc, result, lpc, nframes,
                   chanVars, subVars>>

\* is_running()
is_running == running

\* ---------------------------------------------------------------- read loop
Alive(l) == lpc[l] \in {"check", "read"}

\* a loop that never consults the flag
LoopCheckUnconditional(l) ==
    /\ lpc[l] = "check"
    /\ lpc' = [lpc EXCEPT ![l] = "read"]
    /\ UNCHANGED <<statVars, buffer_size, running, callVars, late, nframes,
                   chanVars, subVars>>

\* line 81: while *running.lock().await
LoopCheck(l) ==
    /\ lpc[l] = "check"
    /\ lpc' = [lpc EXCEPT ![l] = IF running THEN "read" ELSE "stopped"]
    /\ UNCHANGED <<statVars, buffer_size, running, callVars, late, nframes,
                   chanVars, subVars>>

\* a decode error treated like a transport error
OnDecodeErrorBreaks(l) == lpc' = [lpc EXCEPT ![l] = "stopped"]

\* lines 92-94: a payload that does not decode is logged, the loop goes on
OnDecodeError(l) == lpc' = [lpc EXCEPT ![l] = "check"]

\* lines 101-112: Close, Some(Err) and None break out of the loop; the flag is
\* not touched
OnStreamEnd(l) ==
    /\ lpc' = [lpc EXCEPT ![l] = "stopped"]
    /\ UNCHANGED running

\* a publish whose failure (no receiver left) ends the loop
PublishOrBreak(l, msg) ==
    /\ BroadcastSend(msg)
    /\ late' = [late EXCEPT ![l] = IF cohort = {} /\ l \in halted THEN @ + 1 ELSE @]
    /\ lpc' = [lpc EXCEPT ![l] = IF RxCount = 0 THEN "stopped" ELSE "check"]

\* lines 88-90: `if let Err(e) = broadcast_tx.send(msg) { error!(..) }`: the
\* outcome of send is logged at most, and the loop goes on to its next check
Publish(l, msg) ==
    /\ BroadcastSend(msg)
    /\ late' = [late EXCEPT ![l] = IF cohort = {} /\ l \in halted THEN @ + 1 ELSE @]
    /\ lpc' = [lpc EXCEPT ![l] = "check"]

\* lines 82-114: read.next().await yields frame f, and the match on it
OnFrame(l, f) ==
    LET d == Decode(f.payload, f.id)
    IN  CASE f.kind = "Text" /\ d.ok ->
                /\ Publish(l, d.msg)
                /\ UNCHANGED running
          [] f.kind = "Text" /\ ~d.ok ->
                /\ OnDecodeError(l)
                /\ UNCHANGED <<running, chanVars, late>>
          [] f.kind \in {"Close", "Error", "End"} ->
                /\ OnStreamEnd(l)
                /\ UNCHANGED <<chanVars, late>>
          [] OTHER ->
                /\ lpc' = [lpc EXCEPT ![l] = "check"]
                /\ UNCHANGED <<running, chanVars, late>>

\* one iteration of the loop body: the upstream's next frame arrives and is
\* handled; the upstream sends at most maxText text frames in all
\* the iteration in which read.next() yields frame f
ReadFrameOf(l, f) ==
    /\ lpc[l] = "read"
    /\ OnFrame(l, f)
    /\ nframes' = IF f.kind = "Text" THEN nframes + 1 ELSE nframes
    /\ UNCHANGED <<statVars, buffer_size, callVars, subVars>>

ReadFrame(l, maxText) ==
    \E f \in OtherFrames \cup (IF nframes < maxText THEN TextFrames(nframes + 1) ELSE {}) :
        ReadFrameOf(l, f)

\* -------------------------------------------------------------- subscribers
\* a new handle that starts at the oldest retained value
SubscribeStartOldest == IF tail > Capacity THEN tail - Capacity ELSE 0

\* line 43: broadcast_tx.subscribe(): the new handle starts at the tail
SubscribeStart == tail

Subscribe(s) ==
    /\ rx[s] = "none"
    /\ IF s = 1 THEN TRUE ELSE rx[s - 1] # "none"
    /\ rx' = [rx EXCEPT ![s] = "active"]
    /\ next' = [next EXCEPT ![s] = SubscribeStart]
    /\ born' = [born EXCEPT ![s] = Len(pubs)]
    /\ UNCHANGED <<statVars, buffer_size, running, callVars, late, lpc, nframes,
                   chanVars, got, missed>>

\* receiver.recv().await on handle s
Recv(s) ==
    /\ rx[s] = "active"
    /\ LET o == RecvOutcome(s) IN
       /\ o.kind # "Empty"
       /\ next' = [next EXCEPT ![s] = o.next]
       /\ got' = [got EXCEPT ![s] = IF o.kind = "Ok" THEN Append(@, o.val) ELSE @]
       /\ missed' = [missed EXCEPT ![s] = @ + o.missed]
    /\ UNCHANGED <<statVars, buffer_size, running, callVars, late, lpc, nframes,
                   chanVars, rx, born>>

\* the handle is dropped
DropHandle(s) ==
    /\ rx[s] = "active"
    /\ rx' = [rx EXCEPT ![s] = "dropped"]
    /\ UNCHANGED <<statVars, buffer_size, running, callVars, late, lpc, nframes,
                   chanVars, next, got, missed, born>>

\* ------------------------------------------------------ update_with_trade
\* the update whose low test is the `else` of its high test
UpdatedStatsElseIf(st, trade) ==
    LET price == F64(trade.price)
        quantity == F64(trade.quantity)
        total_volume == FAdd(st.total_volume, quantity)
        prev_total == FMul(st.vwap, FSub(total_volume, quantity))
        new_total == FAdd(prev_total, FMul(price, quantity))
    IN  [symbol |-> st.symbol,
         trade_count |-> st.trade_count + 1,
         total_volume |-> total_volume,
         vwap |-> FDiv(new_total, total_volume),
         high |-> IF FLt(st.high, price) THEN price ELSE st.high,
         low |-> IF ~FLt(st.high, price) /\ FLt(price, st.low) THEN price ELSE st.low,
         last_price |-> price,
         last_update |-> Some(trade.timestamp)]

\* lines 128-147, as a function of the record and the trade
UpdatedStats(st, trade) ==
    LET price == F64(trade.price)
        quantity == F64(trade.quantity)
        total_volume == FAdd(st.total_volume, quantity)
        prev_total == FMul(st.vwap, FSub(total_volume, quantity))
        new_total == FAdd(prev_total, FMul(price, quantity))
    IN  [symbol |-> st.symbol,
         trade_count |-> st.trade_count + 1,
         total_volume |-> total_volume,
         vwap |-> FDiv(new_total, total_volume),
         high |-> IF FLt(st.high, price) THEN price ELSE st.high,
         low |-> IF FLt(price, st.low) THEN price ELSE st.low,
         last_price |-> price,
         last_update |-> Some(trade.timestamp)]

\* stats.update_with_trade(&trade)
UpdateWithTrade(trade) ==
    /\ Len(applied) < MaxTrades
    /\ stats' = UpdatedStats(stats, trade)
    /\ applied' = Append(applied, trade)
    /\ UNCHANGED <<buffer_size, running, callVars, late, lpc, nframes,
                   chanVars, subVars>>

\* --------------------------------------------------------------------- Next
\* the whole lifecycle: concurrent start() calls, stop(), the loops they spawn
Next ==
    \/ \E c \in Calls : StartCall(c)
    \/ \E c \in Calls : ConnectOk(c)
    \/ \E c \in Calls : ConnectFail(c)
    \/ \E c \in Calls : SendOk(c)
    \/ \E c \in Calls : SendFail(c)
    \/ Stop
    \/ \E l \in Calls : LoopCheck(l)
    \/ \E l \in Calls : ReadFrame(l, MaxSessionFrames)
    \/ \E s \in SessionSubs : Subscribe(s)
    \/ \E s \in SessionSubs : Recv(s)
    \/ \E s \in SessionSubs : DropHandle(s)

Spec == Init /\ [][Next]_vars

\* the runtime keeps scheduling a spawned task whenever it can take a step, and
\* the upstream is taken never to fall silent while a loop awaits a frame (the
\* code does not ensure the latter; assuming it only removes behaviours)
FairSpec == Spec /\ \A l \in Calls : WF_vars(LoopCheck(l)) /\ WF_vars(ReadFrame(l, MaxSessionFrames))

\* the distributor: one start() call, its loop, and the subscribers
DistNext ==
    \/ StartCall(1)
    \/ ConnectOk(1)
    \/ ConnectFail(1)
    \/ SendOk(1)
    \/ SendFail(1)
    \/ Stop
    \/ LoopCheck(1)
    \/ ReadFrame(1, MaxFrames)
    \/ \E s \in Subs : Subscribe(s)
    \/ \E s \in Subs : Recv(s)
    \/ \E s \in Subs : DropHandle(s)

DistSpec == Init /\ [][DistNext]_vars

\* the statistics record on its own: trades are applied to a fresh record
StatsInit == Init /\ buffer_size = 1
StatsNext == \E trade \in Trades : UpdateWithTrade(trade)
StatsSpec == StatsInit /\ [][StatsNext]_vars

\* ========================================================= session properties
Failed(c) == result[c] \in {"ConnectionError", "WebSocketError"}

\* a call that went past the `if *running` check of start()
PastGuard(c) == cpc[c] \in {"connect", "send"} \/ Failed(c) \/ lpc[c] # "none"

\* a call that opened an upstream connection
Connected(c) == cpc[c] = "send" \/ result[c] = "WebSocketError" \/ lpc[c] # "none"

\* C1: when start() fails in connect_async or in sending the subscribe
\* request, it returns an error, is_running() is false once it has returned,
\* and no read loop has been spawned.
C1_FailedStartLeavesIdle ==
    [][\A c \in Calls :
         (result[c] = "pending" /\ result'[c] \in {"ConnectionError", "WebSocketError"})
            => (~is_running' /\ lpc'[c] = "none")]_vars

\* C2: when a read loop exits on a Close frame, a transport error or the end
\* of the stream, is_running() is false from that step on.
C2_StreamEndLeavesIdle ==
    [][\A l \in Calls : (lpc[l] = "read" /\ lpc'[l] = "stopped") => ~is_running']_vars

\* C3: among the start() calls invoked with no stop() since, at most one gets
\* past the running check; hence at most one opens a connection and at most
\* one spawns a loop, and every other one has returned Ok without doing either.
C3_StartWhileRunningIsNoop ==
    /\ Cardinality({c \in cohort : PastGuard(c)}) <= 1
    /\ Cardinality({c \in cohort : Connected(c)}) <= 1
    /\ Cardinality({c \in cohort : lpc[c] # "none"}) <= 1
    /\ \A c \in cohort : ~PastGuard(c) => (cpc[c] = "returned" /\ result[c] = "Ok")

\* C3's case: two start() calls with no stop() between them, the first has
\* spawned its loop, the second has returned Ok as a no-op.
C3_Witness ==
    \E c, d \in cohort :
        /\ c # d
        /\ Alive(c) /\ result[c] = "Ok"
        /\ result[d] = "Ok" /\ cpc[d] = "returned" /\ ~PastGuard(d)

\* C4: a read loop that was alive when stop() was called eventually terminates.
C4_StopTerminatesLoop ==
    \A l \in Calls : (l \in halted) ~> ~Alive(l)

\* C5: at most one read loop is inside an iteration (past the running check,
\* publishing whatever text frame its connection yields next).
C5_AtMostOneLoop ==
    Cardinality({l \in Calls : lpc[l] = "read"}) <= 1

\* ===================================================== distributor properties
\* messages stored for handle s and not yet received by it
Backlog(s) == tail - next[s]

\* every message passed to send() since handle s was created, in order
Since(s) == [i \in 1..(Len(pubs) - born[s]) |-> pubs[born[s] + i].msg]

\* what is buffered for handle s, oldest first
Pending(s) == [i \in 1..Backlog(s) |-> slots[(next[s] + i - 1) % Capacity].val]

\* handle s was never told Lagged and is not about to be
KeptUp(s) == missed[s] = 0 /\ Backlog(s) <= Capacity

\* what handle s receives if it is drained from position n with no further send
RECURSIVE DrainFrom(_)
DrainFrom(n) ==
    LET o == RecvAt(n) IN
    IF o.kind = "Empty" THEN <<>>
    ELSE IF o.kind = "Ok" THEN <<o.val>> \o DrainFrom(o.next)
    ELSE DrainFrom(o.next)

Drain(s) == DrainFrom(next[s])

IsStored(p) == p.stored
StoredMsgs == LET sel == SelectSeq(pubs, IsStored) IN [i \in 1..Len(sel) |-> sel[i].msg]
LastStored(k) ==
    LET all == StoredMsgs IN
    IF Len(all) <= k THEN all ELSE SubSeq(all, Len(all) - k + 1, Len(all))

\* C6: a handle that never overflowed has received, together with what is
\* still buffered for it, exactly the messages published since it subscribed,
\* in publish order; a dropped handle had received a prefix of them.
C6_DeliveredInOrder ==
    \A s \in Subs :
        /\ (rx[s] = "active" /\ KeptUp(s)) => got[s] \o Pending(s) = Since(s)
        /\ (rx[s] = "dropped" /\ missed[s] = 0) =>
               /\ Len(got[s]) <= Len(Since(s))
               /\ got[s] = SubSeq(Since(s), 1, Len(got[s]))

\* C6's case: both handles, subscribed at different times, have received
\* several messages without ever lagging.
C6_Witness ==
    /\ rx[1] = "active" /\ rx[2] = "active"
    /\ born[1] # born[2]
    /\ missed[1] = 0 /\ missed[2] = 0
    /\ Len(got[1]) >= 3 /\ Len(got[2]) >= 2

\* C7 as stated, with N the buffer_size given to new(): a backlog of more than
\* N makes the next receive report Lagged, and a drained handle receives at
\* most N messages, the most recent N when it had more than N outstanding.
C7_LagAtBufferSize ==
    \A s \in Subs : rx[s] = "active" =>
        /\ Backlog(s) > buffer_size => RecvOutcome(s).kind = "Lagged"
        /\ Len(Drain(s)) <= buffer_size
        /\ Backlog(s) > buffer_size => Drain(s) = LastStored(buffer_size)

\* C7 amended, with C the channel's capacity (buffer_size rounded up to a
\* power of two): a backlog of more than C makes the next receive report
\* Lagged by exactly the excess, a drained handle receives at most C
\* messages, the most recent C in publish order when it had more than C
\* outstanding; and what a handle received, was told it missed and has still
\* outstanding adds up to what was published since it subscribed.
C7_LagAtCapacity ==
    \A s \in Subs : rx[s] = "active" =>
        /\ Backlog(s) > Capacity =>
               /\ RecvOutcome(s).kind = "Lagged"
               /\ RecvOutcome(s).missed = Backlog(s) - Capacity
               /\ Drain(s) = LastStored(Capacity)
        /\ Backlog(s) <= Capacity => Drain(s) = Pending(s)
        /\ Len(Drain(s)) <= Capacity
        /\ Len(got[s]) + missed[s] + Backlog(s) = Len(Since(s))

\* C7's case: a handle was told it lagged and then went on receiving.
C7_Witness ==
    \E s \in Subs :
        /\ rx[s] = "active"
        /\ missed[s] > 0
        /\ Len(got[s]) >= 1
        /\ got[s][Len(got[s])] = pubs[Len(pubs)].msg

\* C8: the loop's publish step is enabled whatever the handles' backlogs are,
\* and beside a handle that never receives and has a full or overflowed
\* buffer, a handle that keeps up still has every message published since it
\* subscribed, in order.
C8_StalledNeverBlocks ==
    /\ \A l \in Calls : (lpc[l] = "read" /\ nframes < MaxFrames) =>
           ENABLED (ReadFrame(l, MaxFrames) /\ Len(pubs') = Len(pubs) + 1)
    /\ \A s, t \in Subs :
           (/\ s # t
            /\ rx[t] = "active" /\ got[t] = <<>> /\ Backlog(t) >= Capacity
            /\ rx[s] = "active" /\ KeptUp(s))
              => got[s] \o Pending(s) = Since(s)

\* C8's case: one handle has never received and has overflowed, the other has
\* received everything published, more than the capacity, and the loop is
\* waiting for the next frame.
C8_Witness ==
    \E s, t \in Subs :
        /\ s # t
        /\ rx[t] = "active" /\ got[t] = <<>> /\ Backlog(t) > Capacity
        /\ rx[s] = "active" /\ missed[s] = 0
        /\ got[s] = Since(s) /\ Len(got[s]) > Capacity
        /\ lpc[1] = "read" /\ nframes < MaxFrames

\* C9: nothing a handle receives was passed to send() before the handle was
\* created, whether it was stored then or rejected for want of receivers.
C9_NoReplay ==
    \A s \in Subs : \A i \in 1..Len(got[s]) : \A j \in 1..born[s] :
        got[s][i] # pubs[j].msg

\* C9's case: a handle created after a message was rejected for want of
\* receivers and after another was stored has received a later message.
C9_Witness ==
    \E s \in Subs :
        /\ Len(got[s]) >= 1
        /\ \E j \in 1..born[s] : pubs[j].stored
        /\ \E j \in 1..born[s] : ~pubs[j].stored

\* C10: a step in which a loop reads a text frame that does not decode (a
\* text frame is consumed and nothing is passed to send()) leaves the channel
\* and the flag alone and takes the loop back to its running check; and a
\* step in which a loop reads a text frame that decodes passes it to send(),
\* which stores it at the tail whenever a receiver exists.
C10_DecodeFailureIsLocal ==
    [][\A l \in Calls : (lpc[l] = "read" /\ lpc'[l] # "read" /\ nframes' = nframes + 1) =>
          IF pubs' = pubs
          THEN /\ lpc'[l] = "check"
               /\ slots' = slots /\ tail' = tail /\ running' = running
          ELSE /\ lpc'[l] = "check"
               /\ Len(pubs') = Len(pubs) + 1
               /\ pubs'[Len(pubs')].msg.id = nframes'
               /\ RxCount > 0 =>
                      /\ tail' = tail + 1
                      /\ slots'[tail % Capacity].val = pubs'[Len(pubs')].msg]_vars

\* C10's case: a handle has received a message whose frame came after a text
\* frame of the same stream that failed to decode.
C10_Witness ==
    \E s \in Subs : \E i \in 1..Len(got[s]) :
        \E j \in 1..(got[s][i].id - 1) :
            \A k \in 1..Len(pubs) : pubs[k].msg.id # j


\* C11: every data frame whose payload decodes is published, a binary frame
\* like a text frame: the iteration that reads a binary frame carrying a valid
\* message passes exactly that message to send, as it does for a text frame
DataFrames(id) == { f \in OtherFrames \cup TextFrames(id) : f.kind \in {"Text", "Binary"} }
C11_DataFramePublished ==
    [][\A l \in Calls : \A f \in DataFrames(nframes + 1) :
          (Decode(f.payload, f.id).ok /\ ReadFrameOf(l, f))
              => /\ Len(pubs') = Len(pubs) + 1
                 /\ pubs'[Len(pubs')].msg = Decode(f.payload, f.id).msg]_vars
\* C12: a delivery failure never stops the read loop nor reaches the other
\* subscribers: whether or not send finds a receiver, the iteration that
\* publishes returns to the loop's running check with the flag untouched, and
\* whenever a handle is registered the message is stored at the tail, where
\* every registered handle will find it; dropping a handle changes nothing
\* for the loop, the channel or the other handles
C12_DeliveryFailureIsLocal ==
    [][/\ \A l \in Calls : \A f \in TextFrames(nframes + 1) :
             (Decode(f.payload, f.id).ok /\ ReadFrameOf(l, f))
                 => /\ lpc'[l] = "check"
                    /\ running' = running
                    /\ RxCount > 0 =>
                          /\ tail' = tail + 1
                          /\ slots'[tail % Capacity] =
                                 [pos |-> tail, val |-> Decode(f.payload, f.id).msg]
       /\ \A s \in Subs :
             (rx[s] = "active" /\ rx'[s] = "dropped")
                 => /\ lpc' = lpc /\ running' = running
                    /\ slots' = slots /\ tail' = tail
                    /\ \A t \in Subs \ {s} : rx'[t] = rx[t] /\ next'[t] = next[t]]_vars

\* handle 1 was dropped, a later send found no receiver, the loop went on,
\* and handle 2, registered after that, has received a later message
C12_Witness ==
    /\ rx[1] = "dropped" /\ rx[2] = "active"
    /\ \E j \in 1..Len(pubs) : ~pubs[j].stored /\ born[1] < j /\ j <= born[2]
    /\ Len(got[2]) >= 1
\* C13: a session on which start() was never called is Idle, whatever stop()
\* and subscribe() calls were made on it: is_running() is false, no connection
\* was opened and no read loop was spawned
NeverStarted == \A c \in Calls : cpc[c] = "idle"
C13_IdleUntilStarted ==
    NeverStarted =>
        /\ ~is_running
        /\ \A c \in Calls : ~Connected(c) /\ result[c] = "pending" /\ lpc[c] = "none"

\* subscribe() was called on a session that was never started
C13_Witness == NeverStarted /\ rx[1] # "none" /\ ~is_running
\* C17: once stop() has returned and while start() is not called again,
\* is_running() is false and each read loop publishes at most one further
\* message (the frame it was awaiting) and reads no more after it; a loop
\* spawned after the stop() by a start() call already under way reads nothing
C17_AtMostOneLateMessage ==
    cohort = {} =>
        /\ ~is_running
        /\ \A l \in Calls :
              IF l \in halted
              THEN late[l] <= 1 /\ (late[l] = 1 => lpc[l] # "read")
              ELSE lpc[l] # "read"

\* a loop that awaited a frame when stop() was called published that one
\* frame's message afterwards and then exited at its running check
C17_Witness ==
    /\ cohort = {} /\ ~is_running
    /\ \E l \in halted : late[l] = 1 /\ lpc[l] = "stopped"
\* ====================================================== statistics properties
RECURSIVE SumQuantity(_)
SumQuantity(seq) ==
    IF seq = <<>> THEN 0
    ELSE SumQuantity(SubSeq(seq, 1, Len(seq) - 1)) + seq[Len(seq)].quantity

RECURSIVE SumNotional(_)
SumNotional(seq) ==
    IF seq = <<>> THEN 0
    ELSE SumNotional(SubSeq(seq, 1, Len(seq) - 1))
            + seq[Len(seq)].price * seq[Len(seq)].quantity

PricesOf(seq) == { seq[i].price : i \in 1..Len(seq) }
MaxPrice(seq) == CHOOSE p \in PricesOf(seq) : \A q \in PricesOf(seq) : q <= p
MinPrice(seq) == CHOOSE p \in PricesOf(seq) : \A q \in PricesOf(seq) : p <= q

\* C14: whatever trades were applied to a fresh record, trade_count is their
\* number, total_volume the sum of their quantities, and high and low the
\* largest and the smallest of their prices
C14_StatsMatchHistory ==
    /\ stats.trade_count = Len(applied)
    /\ FEq(stats.total_volume, F64(SumQuantity(applied)))
    /\ applied # <<>> =>
          /\ FEq(stats.high, F64(MaxPrice(applied)))
          /\ FEq(stats.low, F64(MinPrice(applied)))

\* two trades at different prices were applied
C14_Witness ==
    /\ Len(applied) >= 2
    /\ stats.trade_count = Len(applied)
    /\ FLt(stats.low, stats.high)
    /\ FLt(F64(0), stats.total_volume)
\* the record after the trades of seq were applied, in order, to a fresh one
RECURSIVE StatsAfter(_)
StatsAfter(seq) ==
    IF seq = <<>> THEN MarketStatsNew(StatsSymbol)
    ELSE UpdatedStats(StatsAfter(SubSeq(seq, 1, Len(seq) - 1)), seq[Len(seq)])

\* the orderings of a sequence
Orderings(seq) ==
    { [i \in 1..Len(seq) |-> seq[f[i]]] :
         f \in { g \in [1..Len(seq) -> 1..Len(seq)] :
                    \A i, j \in 1..Len(seq) : g[i] = g[j] => i = j } }

\* sum(price * quantity) / sum(quantity)
ClosedFormVwap(seq) == FDiv(F64(SumNotional(seq)), F64(SumQuantity(seq)))

\* C15: the vwap maintained incrementally does not depend on the order of the
\* trades and equals sum(price * quantity) / sum(quantity): whatever the order
\* in which the applied trades are replayed on a fresh record, the final vwap
\* is the closed form (stated where the closed form has a non-zero divisor)
C15_VwapOrderIndependent ==
    SumQuantity(applied) # 0 =>
        /\ FEq(stats.vwap, ClosedFormVwap(applied))
        /\ \A seq \in Orderings(applied) :
              FEq(StatsAfter(seq).vwap, ClosedFormVwap(applied))
\* C16: trade_count and total_volume never decrease from one update to the
\* next, whatever Trade the decoder produced
C16_CountAndVolumeMonotonic ==
    [][\A trade \in Trades :
          UpdateWithTrade(trade)
              => /\ stats.trade_count <= stats'.trade_count
                 /\ FLe(stats.total_volume, stats'.total_volume)]_vars
\* C18: after every update last_price is the price of the trade just applied,
\* last_update its timestamp, and low <= last_price <= high; after the first
\* trade on a fresh record high = low = last_price = its price and
\* trade_count = 1
LastApplied == applied[Len(applied)]
C18_LastTradeWithinRange ==
    applied # <<>> =>
        /\ FEq(stats.last_price, F64(LastApplied.price))
        /\ stats.last_update = Some(LastApplied.timestamp)
        /\ FLe(stats.low, stats.last_price) /\ FLe(stats.last_price, stats.high)
        /\ Len(applied) = 1 =>
              /\ stats.trade_count = 1
              /\ FEq(stats.high, F64(LastApplied.price))
              /\ FEq(stats.low, F64(LastApplied.price))

\* a second trade was applied below the first one's price, at a later time
C18_Witness ==
    /\ Len(applied) >= 2
    /\ FLt(stats.last_price, stats.high)
    /\ FEq(stats.low, stats.last_price)
    /\ stats.last_update = Some(2) /\ applied[1].timestamp = 1
\* C19: update_with_trade never divides by zero: after each update, whatever
\* trades were decoded, vwap is a well-defined (finite) number
C19_VwapWellDefined == IsFinite(stats.vwap)

\* C20: a record for symbol S reflects only trades of S: an update with a
\* trade of another symbol leaves every statistic of the record unchanged
C20_OtherSymbolIgnored ==
    [][\A trade \in Trades :
          (trade.symbol # stats.symbol /\ UpdateWithTrade(trade)) => stats' = stats]_vars
====
